---- MODULE Spec2Model ----
(***************************************************************************)
(* Review orchestration engine of astr-plugin-reviewer (Probot app).       *)
(*                                                                         *)
(* Spec      the issues.opened / issues.edited handler and the review      *)
(*           cycle it starts, one process per delivered event, the         *)
(*           external calls (the awaits) being the atomic steps.           *)
(*                                                                         *)
(* SpecPlan  one pass of selectAndFetchFilesForReview over a descriptor     *)
(*           list, one loop iteration per step.                            *)
(* SpecSort  sortFilesByPriority on a descriptor list, the sort unfolded   *)
(*           as a stable insertion sort under the code's comparator.       *)
(*                                                                         *)
(* A ticket body is abstracted to what the handler's regular expressions   *)
(* can see of it:                                                          *)
(*   toks  the sequence of re-review tokens in the body, in order:         *)
(*           "H"  a heading      ## 审核选项                                *)
(*           "U"  a line         - [ ] 重新提交审核                          *)
(*           "X"  a line         - [x] 重新提交审核                          *)
(*   fmt   what validateIssueFormat does on the title and body:            *)
(*           "valid", "invalid" (errors listed), "throws" (the json block  *)
(*           parses to null, so pluginData.name raises a TypeError).       *)
(* A comment is abstracted to its author type, the template its body was   *)
(* last written from (kind) and the function that created it (sys).        *)
(***************************************************************************)
EXTENDS Integers, Sequences, FiniteSets, Bags, TLC

\* ---------------------------------------------------------------- bounds
MaxEvents == 3
MaxFailures == 1
MaxFiles == 4       \* longest free descriptor list of a planning pass
MaxExtra == 2       \* descriptors beyond the count cap in a long list
MaxSortLen == 3     \* longest descriptor list that is sorted
MaxLineLen == 5     \* longest line given to removeCommentsFromLine
MaxTotalFiles == 10 \* most Python files a repository has in the combiner's summary
MaxTree == 2        \* longest free repository tree of a followed cycle
MaxTextLen == 5     \* longest blob text that is normalized

\* ------------------------------------------------------ program constants
MAX_FILES_TO_REVIEW == 15
MAIN_FILE_PROMPT_LENGTH == 2959
REGULAR_FILE_PROMPT_LENGTH == 1164

\* ---------------------------------------------------------------- state
VARIABLES
    body,        \* the ticket body stored in the tracker
    comments,    \* the ticket's comment thread, oldest first; the id is the index
    procs,       \* the handler invocations in flight: a bag of their locals
    delivered,   \* events delivered so far
    failures,    \* external calls that have failed so far
    bodyWriter,  \* which write stored the current body (see Writers)
    labelled,    \* whether the ticket carries the plugin-publish label
    files,       \* planner: the descriptors, each with what its fetch returns
    maxInputTokens,  \* planner: config.maxInputTokens
    plan,        \* planner: the locals of selectAndFetchFilesForReview
    sortIn,      \* sorter: the argument of sortFilesByPriority
    sortOut,     \* sorter: the sorted array built so far
    sortPos,     \* sorter: the next element of sortIn to place
    cycle,       \* one review cycle: the locals of handlePluginReview and below
    log,         \* the external calls issued and the planner's decisions, in order
    line,        \* normalizer: the argument of removeCommentsFromLine
    scan,        \* normalizer: the locals of removeCommentsFromLine
    blobText,    \* normalizer: the decoded text of a fetched blob
    norm,        \* normalizer: the lines kept so far and the content built
    combineIn,   \* combiner: the arguments of combineReviewResults
    combineOut   \* combiner: what combineReviewResults returned

ticketVars == <<body, comments, procs, delivered, failures, bodyWriter, labelled>>

planVars == <<files, maxInputTokens, plan>>

sortVars == <<sortIn, sortOut, sortPos>>

cycleVars == <<cycle, log>>

stripVars == <<line, scan, blobText, norm>>

combineVars == <<combineIn, combineOut>>

vars == <<ticketVars, planVars, sortVars, cycleVars, stripVars, combineVars>>

NoId == 0

Fmts == {"valid", "invalid", "throws"}

\* Bodies a submitter writes: no section, the section as the engine inserts it,
\* the section with the box checked, and a checked box without the heading.
UserToks == { <<>>, <<"H", "U">>, <<"H", "X">>, <<"X">> }

UserBodies == [fmt : Fmts, toks : UserToks]

\* The submitter, the un-check write of an edit (line 54), and the write of
\* updateIssueBodyForReviewOptions in a cycle an edit or the opening started.
Writers == {"user", "uncheck", "options_edited", "options_opened"}

\* ------------------------------------------------ ticket body (regexes)

\* issue.body.match(/[-*]\s*\[[xX]\]\s*重新提交审核/)
HasCheckedBox(toks) == \E i \in 1..Len(toks) : toks[i] = "X"

\* Mutant of UncheckBoxes: only a box that follows the heading is un-checked.
UncheckBoxesInSectionOnly(toks) ==
    [i \in 1..Len(toks) |->
        IF toks[i] = "X" /\ i > 1 /\ toks[i - 1] = "H" THEN "U" ELSE toks[i]]

\* issue.body.replace(/([-*]\s*\[)[xX](\]\s*重新提交审核)/g, "$1 $2")
UncheckBoxes(toks) ==
    [i \in 1..Len(toks) |-> IF toks[i] = "X" THEN "U" ELSE toks[i]]

\* reReviewSectionRegex.test(issueBody): the heading alone matches, the box
\* after it is optional.
hasReReviewSection(toks) == \E i \in 1..Len(toks) : toks[i] = "H"

\* `${issueBody.trim()}\n\n## 审核选项\n\n- [ ] 重新提交审核`
AppendSection(toks) == toks \o <<"H", "U">>

\* issueBody.replace(reReviewSectionRegex, "").trim(): every heading goes,
\* and with it the box line that follows it directly.
RECURSIVE RemoveSections(_)
RemoveSections(toks) ==
    IF toks = <<>> THEN <<>>
    ELSE IF Head(toks) = "H"
         THEN IF Len(toks) >= 2 /\ toks[2] \in {"U", "X"}
              THEN RemoveSections(SubSeq(toks, 3, Len(toks)))
              ELSE RemoveSections(Tail(toks))
         ELSE <<Head(toks)>> \o RemoveSections(Tail(toks))

\* ------------------------------------------------------------- comments

\* The title line of each comment body the engine writes.
Title(kind) ==
    CASE kind = "review_started" -> "hourglass"   \* ## ⏳ 正在审核中...
      [] kind = "format_error"   -> "warning"     \* ## ⚠️ 插件提交格式错误
      [] kind = "review_failure" -> "cross"       \* ## ❌ 插件审核失败
      [] kind = "review_success" -> "robot"       \* ## 🤖 AI代码审核报告 for ...
      [] kind = "system_error"   -> "cross"       \* ## ❌ 系统错误
      [] OTHER                   -> "none"

\* /##\s*(⏳|⚠️|❌|🤖)/.test(comment.body)
MarkerMatches(c) == Title(c.kind) \in {"hourglass", "warning", "cross", "robot"}

IsReviewComment(c) == c.bot /\ MarkerMatches(c)

\* comments.reverse().find(...) || null : the id of the newest match, or NoId
LastReviewCommentId(cs) ==
    LET ids == {i \in 1..Len(cs) : IsReviewComment(cs[i])}
    IN  IF ids = {} THEN NoId ELSE CHOOSE i \in ids : \A j \in ids : j <= i

\* lines 37-42: the edit does not qualify
EditRejected(cs, id, toks) ==
    \/ id = NoId
    \/ cs[id].kind = "review_success"      \* body.includes("## 🤖 AI代码审核报告")
    \/ cs[id].kind = "review_started"      \* body.includes("## ⏳ 正在审核中...")
    \/ ~HasCheckedBox(toks)

\* -------------------------------------------------------------- events

\* The locals of a handler invocation at its first statement.
NewProc(action, b) ==
    [action |-> action, payload |-> b, pc |-> "start", isUpdate |-> FALSE,
     commentToUpdateId |-> NoId, currentCommentId |-> NoId, type |-> "none",
     unchecked |-> FALSE]   \* history: the write of line 54 has been stored

Put(ps, p) == ps (+) SetToBag({p})

Take(ps, p) == ps (-) SetToBag({p})

\* handler p goes on as q
Step(ps, p, q) == Put(Take(ps, p), q)

\* The tracker delivers issues.edited for every stored body, whoever wrote it
\* (the model stops delivering after MaxEvents events).
Deliver(ps, b) ==
    IF delivered < MaxEvents THEN Put(ps, NewProc("edited", b)) ELSE ps

Delivered(n) == IF n < MaxEvents THEN n + 1 ELSE n

\* The planner and the sorter at rest (the ticket specification leaves them so).
PlanIdle ==
    /\ files = <<>>
    /\ maxInputTokens = 0
    /\ plan = [idx |-> 1, selected |-> <<>>, totalEstimatedTokens |-> 0, pc |-> "done"]

SortIdle == sortIn = <<>> /\ sortOut = <<>> /\ sortPos = 1

\* No cycle is being followed step by step.
NoResult == [success |-> FALSE, error |-> "none", review |-> <<>>]

NoRepoInfo == [owner |-> "none", repo |-> "none"]

NothingPosted == [type |-> "none", text |-> "none", ok |-> FALSE]

NoRepo == [kind |-> "missing", host |-> "none", path |-> <<>>]

NoPluginData == [name |-> "", desc |-> "", repo |-> NoRepo]

NoIssue == [title |-> FALSE, checks |-> FALSE, json |-> "missing", data |-> NoPluginData]

CycleIdleValue ==
    [pc |-> "idle", payload |-> [fmt |-> "valid", toks |-> <<>>], repo |-> <<>>,
     isUpdate |-> FALSE, currentCommentId |-> NoId, type |-> "none",
     repoInfo |-> NoRepoInfo, totalFileCount |-> 0, result |-> NoResult,
     posted |-> NothingPosted,
     completion |-> "none",     \* history: what the completion request did
     issue |-> NoIssue]         \* the title and body of the event's issue

CycleIdle == cycle = CycleIdleValue /\ log = <<>>

NormIdle ==
    /\ blobText = <<>>
    /\ norm = [idx |-> 1, kept |-> <<>>, content |-> <<>>, pc |-> "done"]

StripIdle ==
    /\ line = <<>>
    /\ scan = [i |-> 1, in_single_quote |-> FALSE, in_double_quote |-> FALSE,
               pc |-> "done", result |-> <<>>]
    /\ NormIdle

CombineIdle ==
    /\ combineIn = [success |-> FALSE, review |-> "none", error |-> "none",
                    totalFileCount |-> 0, selectedFiles |-> <<>>]
    /\ combineOut = [pc |-> "idle"]

Init ==
    /\ body \in UserBodies
    /\ labelled \in BOOLEAN
    /\ comments = <<>>
    /\ procs = SetToBag({NewProc("opened", body)})
    /\ delivered = 1
    /\ failures = 0
    /\ bodyWriter = "user"
    /\ PlanIdle
    /\ SortIdle
    /\ CycleIdle
    /\ StripIdle
    /\ CombineIdle

\* An external call returns (ok) or raises; at most MaxFailures raise.
Outcome(ok) ==
    /\ ok \/ failures < MaxFailures
    /\ failures' = IF ok THEN failures ELSE failures + 1

\* The submitter edits the ticket: the checkbox lines change, and the
\* submission (fmt) stays what it was or is repaired.
UserEdit ==
    /\ delivered < MaxEvents
    /\ \E t \in UserToks, f \in {body.fmt, "valid"} :
         /\ body' = [fmt |-> f, toks |-> t]
         /\ procs' = Put(procs, NewProc("edited", body'))
    /\ delivered' = delivered + 1
    /\ bodyWriter' = "user"
    /\ UNCHANGED <<comments, failures, labelled, planVars, sortVars, cycleVars, stripVars, combineVars>>

\* ------------------------------------------------- postOrUpdateComment

\* lines 606-622: the comment thread after the call
PostedComments(cs, type, isUpdate, commentId, ok) ==
    IF ~ok THEN cs
    ELSE IF isUpdate /\ commentId # NoId
         THEN [cs EXCEPT ![commentId].kind = type]
         ELSE Append(cs, [bot |-> TRUE, kind |-> type, sys |-> FALSE])

\* lines 604, 618, 626: postedCommentId
PostedCommentId(cs, isUpdate, commentId, ok) ==
    IF isUpdate /\ commentId # NoId THEN commentId
    ELSE IF ok THEN Len(cs) + 1 ELSE commentId

\* ------------------------------------- updateIssueBodyForReviewOptions

\* Mutant of WritesReviewOptions: the review_success branch is missing.
WritesReviewOptionsOnFailureOnly(toks, type) ==
    type \in {"format_error", "review_failure"} /\ ~hasReReviewSection(toks)

\* lines 642-666: whether the outcome makes the function write the body
WritesReviewOptions(toks, type) ==
    \/ type \in {"format_error", "review_failure"} /\ ~hasReReviewSection(toks)
    \/ type = "review_success" /\ hasReReviewSection(toks)

\* lines 644, 656: newBody, computed from the event's issue.body
ReviewOptionsBody(toks, type) ==
    IF type = "review_success" THEN RemoveSections(toks) ELSE AppendSection(toks)

\* -------------------------------------------------------- the handler

\* Mutant of LabelCheckPasses: the label is not looked at.
LabelCheckSkipped(hasLabel) == TRUE

\* line 26: issue.labels?.some((label) => label.name === "plugin-publish")
LabelCheckPasses(hasLabel) == hasLabel

\* lines 22-58 up to the first external call: the label check, and for an
\* edit findLastReviewComment (listComments) and the qualification.
Receive(p) ==
    /\ p.pc = "start"
    /\ IF ~LabelCheckPasses(labelled)
       THEN /\ procs' = Take(procs, p)
            /\ UNCHANGED failures
       ELSE IF p.action = "opened"
       THEN /\ procs' = Step(procs, p, [p EXCEPT !.pc = "started"])
            /\ UNCHANGED failures
       ELSE \E ok \in BOOLEAN :
            /\ Outcome(ok)
            /\ LET id == IF ok THEN LastReviewCommentId(comments) ELSE NoId IN
               IF EditRejected(comments, id, p.payload.toks)
               THEN procs' = Take(procs, p)
               ELSE procs' = Step(procs, p, [p EXCEPT !.pc = "uncheck",
                                                      !.isUpdate = TRUE,
                                                      !.commentToUpdateId = id,
                                                      !.currentCommentId = id])
    /\ UNCHANGED <<body, comments, delivered, bodyWriter, labelled, planVars, sortVars, cycleVars, stripVars, combineVars>>

\* Mutant of OnUncheckFailure: the write is inside the try, its error goes
\* to the catch.
OnUncheckFailureCaught(ps, p) == Step(ps, p, [p EXCEPT !.pc = "syserr"])

\* lines 54-60: issues.update is awaited before the try, so its error leaves
\* the handler
OnUncheckFailure(ps, p) == Take(ps, p)

\* lines 50-57: the body write that un-checks the box; it is outside the
\* try, so when it raises the handler ends there (the log keeps the error).
Uncheck(p) ==
    LET updatedBody == [p.payload EXCEPT !.toks = UncheckBoxes(p.payload.toks)] IN
    /\ p.pc = "uncheck"
    /\ \E ok \in BOOLEAN :
         /\ Outcome(ok)
         /\ IF ok
            THEN /\ body' = updatedBody
                 /\ bodyWriter' = "uncheck"
                 /\ procs' = Deliver(Step(procs, p, [p EXCEPT !.pc = "started",
                                                             !.unchecked = TRUE]),
                                     updatedBody)
                 /\ delivered' = Delivered(delivered)
                 /\ UNCHANGED log
            ELSE /\ procs' = OnUncheckFailure(procs, p)
                 /\ log' = Append(log, [ev |-> "issues.update.raised", idx |-> 0])
                 /\ UNCHANGED <<body, bodyWriter, delivered>>
    /\ UNCHANGED <<comments, labelled, cycle, planVars, sortVars, stripVars, combineVars>>

\* lines 79-98: the Started comment, then validateIssueFormat on the event's
\* issue (no external call between the two).
PostStarted(p) ==
    /\ p.pc = "started"
    /\ \E ok \in BOOLEAN :
         /\ Outcome(ok)
         /\ comments' = PostedComments(comments, "review_started", p.isUpdate,
                                       p.currentCommentId, ok)
         /\ LET id == PostedCommentId(comments, p.isUpdate, p.currentCommentId, ok)
                q == [p EXCEPT !.currentCommentId = id]
            IN  procs' = Step(procs, p,
                    CASE p.payload.fmt = "throws"  -> [q EXCEPT !.pc = "syserr"]
                      [] p.payload.fmt = "invalid" ->
                            [q EXCEPT !.pc = "post", !.type = "format_error"]
                      [] OTHER -> [q EXCEPT !.pc = "review"])
    /\ UNCHANGED <<body, delivered, bodyWriter, labelled, planVars, sortVars, cycleVars, stripVars, combineVars>>

\* line 102: reviewPlugin catches every error and returns success or failure.
Review(p) ==
    /\ p.pc = "review"
    /\ \E t \in {"review_success", "review_failure"} :
         procs' = Step(procs, p, [p EXCEPT !.pc = "post", !.type = t])
    /\ UNCHANGED <<body, comments, delivered, failures, bodyWriter, labelled, planVars, sortVars, cycleVars, stripVars, combineVars>>

\* lines 90-96, 106-120 and 606-622: the terminal comment write, always with
\* isUpdate = true.
PostTerminal(p) ==
    /\ p.pc = "post"
    /\ \E ok \in BOOLEAN :
         /\ Outcome(ok)
         /\ comments' = PostedComments(comments, p.type, TRUE, p.currentCommentId, ok)
    /\ procs' = Step(procs, p, [p EXCEPT !.pc = "bodyopt"])
    /\ UNCHANGED <<body, delivered, bodyWriter, labelled, planVars, sortVars, cycleVars, stripVars, combineVars>>

\* line 624: updateIssueBodyForReviewOptions(context, type), which reads the
\* body from context.payload.issue and catches a failed write.
UpdateBody(p) ==
    LET newBody == [p.payload EXCEPT !.toks = ReviewOptionsBody(p.payload.toks, p.type)] IN
    /\ p.pc = "bodyopt"
    /\ IF WritesReviewOptions(p.payload.toks, p.type)
       THEN \E ok \in BOOLEAN :
              /\ Outcome(ok)
              /\ IF ok
                 THEN /\ body' = newBody
                      /\ bodyWriter' = IF p.action = "edited" THEN "options_edited"
                                       ELSE "options_opened"
                      /\ procs' = Deliver(Take(procs, p), newBody)
                      /\ delivered' = Delivered(delivered)
                 ELSE /\ procs' = Take(procs, p)
                      /\ UNCHANGED <<body, bodyWriter, delivered>>
       ELSE /\ procs' = Take(procs, p)
            /\ UNCHANGED <<body, bodyWriter, failures, delivered>>
    /\ UNCHANGED <<comments, labelled, planVars, sortVars, cycleVars, stripVars, combineVars>>

\* lines 62-63 and 674-685: the catch of the handler
PostSystemError(p) ==
    /\ p.pc = "syserr"
    /\ \E ok \in BOOLEAN :
         /\ Outcome(ok)
         /\ comments' = IF ok
                        THEN Append(comments,
                                 [bot |-> TRUE, kind |-> "system_error", sys |-> TRUE])
                        ELSE comments
    /\ procs' = Take(procs, p)
    /\ UNCHANGED <<body, delivered, bodyWriter, labelled, planVars, sortVars, cycleVars, stripVars, combineVars>>

Next ==
    \/ UserEdit
    \/ \E p \in BagToSet(procs) : Receive(p)
    \/ \E p \in BagToSet(procs) : Uncheck(p)
    \/ \E p \in BagToSet(procs) : PostStarted(p)
    \/ \E p \in BagToSet(procs) : Review(p)
    \/ \E p \in BagToSet(procs) : PostTerminal(p)
    \/ \E p \in BagToSet(procs) : UpdateBody(p)
    \/ \E p \in BagToSet(procs) : PostSystemError(p)

Spec == Init /\ [][Next]_vars
\* ================================================================ paths
\* A path is the sequence of its segments (path.split("/")). The segment
\* names are lower case, so toLowerCase() leaves them as they are, and no
\* directory name is a prefix of another name, so comparing two paths of the
\* same depth as strings is comparing them segment by segment.

\* The names, in the order localeCompare gives them.
NameOrder == <<"a.py", "b.py", "domain.py", "main.py", "pkg", "sub">>

NameRank(n) == CHOOSE i \in 1..Len(NameOrder) : NameOrder[i] = n

\* name.length
NameLength(n) ==
    CASE n = "domain.py" -> 9
      [] n = "main.py"   -> 7
      [] n \in {"a.py", "b.py"} -> 4
      [] OTHER -> 3

\* path.length: the segments and the separators between them
RECURSIVE PathLength(_)
PathLength(path) ==
    IF Len(path) = 1 THEN NameLength(path[1])
    ELSE NameLength(Head(path)) + 1 + PathLength(Tail(path))

\* path.toLowerCase().includes("main.py"): a substring test, so it holds of
\* domain.py as well.
isMain(path) == \E i \in 1..Len(path) : path[i] \in {"main.py", "domain.py"}

\* ====================================================== sortFilesByPriority

\* a.path.localeCompare(b.path), for paths of the same depth
RECURSIVE localeCompare(_, _)
localeCompare(a, b) ==
    IF a = <<>> \/ b = <<>> THEN Len(a) - Len(b)
    ELSE IF Head(a) # Head(b) THEN NameRank(Head(a)) - NameRank(Head(b))
    ELSE localeCompare(Tail(a), Tail(b))

\* lines 271-284: the comparator
compare(a, b) ==
    IF isMain(a) # isMain(b) THEN (IF isMain(a) THEN -1 ELSE 1)
    ELSE IF Len(a) # Len(b) THEN Len(a) - Len(b)
    ELSE localeCompare(a, b)

\* One step of the stable sort: x goes after every element that does not
\* compare greater than it.
InsertSorted(out, x) ==
    LET k == Cardinality({i \in 1..Len(out) : compare(out[i], x) <= 0})
    IN  SubSeq(out, 1, k) \o <<x>> \o SubSeq(out, k + 1, Len(out))

SortPaths ==
    { <<"main.py">>, <<"domain.py">>, <<"a.py">>, <<"pkg", "main.py">>,
      <<"pkg", "b.py">>, <<"pkg", "sub", "a.py">> }

SortInputs == UNION {[1..n -> SortPaths] : n \in 0..MaxSortLen}

TicketIdle ==
    /\ body = [fmt |-> "valid", toks |-> <<>>]
    /\ comments = <<>>
    /\ procs = EmptyBag
    /\ delivered = 0
    /\ failures = 0
    /\ bodyWriter = "user"
    /\ labelled = TRUE

InitSort ==
    /\ sortIn \in SortInputs
    /\ sortOut = <<>>
    /\ sortPos = 1
    /\ TicketIdle
    /\ PlanIdle
    /\ CycleIdle
    /\ StripIdle
    /\ CombineIdle

\* [...files].sort(...), one element at a time
SortStep ==
    /\ sortPos <= Len(sortIn)
    /\ sortOut' = InsertSorted(sortOut, sortIn[sortPos])
    /\ sortPos' = sortPos + 1
    /\ UNCHANGED <<sortIn, ticketVars, planVars, cycleVars, stripVars, combineVars>>

NextSort == SortStep

SpecSort == InitSort /\ [][NextSort]_vars

\* ============================================ selectAndFetchFilesForReview

TokenRatioDenominator == 4      \* TOKEN_ESTIMATION_RATIO = 0.25 = 1 / 4

CeilDiv(a, b) == (a + b - 1) \div b

\* Math.ceil(PROMPT.length * TOKEN_ESTIMATION_RATIO)
mainPromptTokens == CeilDiv(MAIN_FILE_PROMPT_LENGTH, TokenRatioDenominator)

regularPromptTokens == CeilDiv(REGULAR_FILE_PROMPT_LENGTH, TokenRatioDenominator)

\* lines 329-334: Math.ceil((content.length + path.length) * 0.25 + promptTokens),
\* content being the fetched text after comment stripping
estimatedTokens(path, contentLength) ==
    CeilDiv(contentLength + PathLength(path), TokenRatioDenominator)
      + (IF isMain(path) THEN mainPromptTokens ELSE regularPromptTokens)

\* Mutant of OverLimit: the limit is the whole of maxInputTokens.
OverLimitOfAll(tokens, max) == tokens > max

\* lines 304, 337: tokens > maxInputTokens * 0.7 (for the values of
\* MaxInputTokenValues the floating-point product is the exact one)
OverLimit(tokens, max) == 10 * tokens > 7 * max

\* An entry of the log: an external call as it is issued, or a decision of
\* the planner; idx is the descriptor it is about (0 when there is none).
Ev(name, i) == [ev |-> name, idx |-> i]

\* Mutant of OnOverBudget: the file is skipped and the scan goes on.
OnOverBudgetContinue(pl) == [pl EXCEPT !.idx = pl.idx + 1, !.pc = "loop"]

\* line 337: break
OnOverBudget(pl) == [pl EXCEPT !.pc = "done"]

\* Mutant of OnFetchError: the failed fetch ends the scan.
OnFetchErrorAbort(pl) == [pl EXCEPT !.pc = "done"]

\* lines 341-344: the error is logged, continue
OnFetchError(pl) == [pl EXCEPT !.idx = pl.idx + 1, !.pc = "loop"]

\* Mutant of CapReached: the scan stops one file late.
CapReachedLate(sel) == Len(sel) > MAX_FILES_TO_REVIEW

\* line 312: selected.length >= MAX_FILES_TO_REVIEW
CapReached(sel) == Len(sel) >= MAX_FILES_TO_REVIEW

PlanPaths == { <<"main.py">>, <<"pkg", "b.py">> }

ContentLengths == {1000, 6000}

MaxInputTokenValues == {1500, 4000, 100000}

\* A descriptor with what getBlob does for it: an error, or a blob whose
\* text has contentLength characters once comments and empty lines are gone.
Descriptors ==
    {d \in [path : PlanPaths, ok : BOOLEAN, contentLength : ContentLengths \cup {0}] :
        d.ok = (d.contentLength # 0)}

\* Every list of up to MaxFiles descriptors, and the lists long enough to
\* reach the count cap that repeat one descriptor, but for one place.
PlanInputs ==
    UNION {[1..n -> Descriptors] : n \in 0..MaxFiles}
    \cup { [i \in 1..n |-> IF i = k THEN e ELSE d] :
             n \in MAX_FILES_TO_REVIEW..(MAX_FILES_TO_REVIEW + MaxExtra),
             k \in 1..MAX_FILES_TO_REVIEW,
             d \in Descriptors, e \in Descriptors }

\* lines 301-308: the locals before the loop
PlanStart ==
    [idx |-> 1, selected |-> <<>>, totalEstimatedTokens |-> 0, pc |-> "loop"]

InitPlan ==
    /\ files \in PlanInputs
    /\ maxInputTokens \in MaxInputTokenValues
    /\ plan = PlanStart
    /\ log = <<>>
    /\ cycle = CycleIdleValue
    /\ TicketIdle
    /\ SortIdle
    /\ StripIdle
    /\ CombineIdle

\* Mutant of InLoop: the loop goes on after the scan has stopped.
InLoopAfterStop == plan.pc \in {"loop", "done"} /\ plan.idx <= Len(files)

\* line 311: the loop is at the head of an iteration
InLoop == plan.pc = "loop" /\ plan.idx <= Len(files)

\* lines 315-318: the blob is awaited
Fetching == plan.pc = "fetching"

\* line 312: the count cap ends the scan
PlanCapReached ==
    /\ InLoop
    /\ CapReached(plan.selected)
    /\ plan' = [plan EXCEPT !.pc = "done"]
    /\ log' = Append(log, Ev("capped", plan.idx))
    /\ UNCHANGED <<files, maxInputTokens, ticketVars, sortVars, cycle, stripVars, combineVars>>

\* lines 315-318: getBlob is issued for the descriptor at hand
PlanFetch ==
    /\ InLoop
    /\ ~CapReached(plan.selected)
    /\ plan' = [plan EXCEPT !.pc = "fetching"]
    /\ log' = Append(log, Ev("getBlob", plan.idx))
    /\ UNCHANGED <<files, maxInputTokens, ticketVars, sortVars, cycle, stripVars, combineVars>>

\* lines 341-344: getBlob raises, the file is skipped
PlanFetchError ==
    /\ Fetching
    /\ ~files[plan.idx].ok
    /\ plan' = OnFetchError(plan)
    /\ log' = Append(log, Ev("skipped", plan.idx))
    /\ UNCHANGED <<files, maxInputTokens, ticketVars, sortVars, cycle, stripVars, combineVars>>

\* line 337: the fetched file does not fit
PlanOverBudget ==
    LET f == files[plan.idx] IN
    /\ Fetching
    /\ f.ok
    /\ OverLimit(plan.totalEstimatedTokens + estimatedTokens(f.path, f.contentLength),
                 maxInputTokens)
    /\ plan' = OnOverBudget(plan)
    /\ log' = Append(log, Ev("rejected", plan.idx))
    /\ UNCHANGED <<files, maxInputTokens, ticketVars, sortVars, cycle, stripVars, combineVars>>

\* lines 339-340: the fetched file is accepted
PlanAccept ==
    LET f == files[plan.idx]
        est == estimatedTokens(f.path, f.contentLength)
    IN
    /\ Fetching
    /\ f.ok
    /\ ~OverLimit(plan.totalEstimatedTokens + est, maxInputTokens)
    /\ plan' = [plan EXCEPT !.totalEstimatedTokens = plan.totalEstimatedTokens + est,
                            !.selected = Append(plan.selected, plan.idx),
                            !.idx = plan.idx + 1,
                            !.pc = "loop"]
    /\ log' = Append(log, Ev("accepted", plan.idx))
    /\ UNCHANGED <<files, maxInputTokens, ticketVars, sortVars, cycle, stripVars, combineVars>>

\* line 346: the list is exhausted
PlanReturn ==
    /\ plan.pc = "loop"
    /\ plan.idx > Len(files)
    /\ plan' = [plan EXCEPT !.pc = "done"]
    /\ UNCHANGED <<files, maxInputTokens, log, ticketVars, sortVars, cycle, stripVars, combineVars>>

NextPlan ==
    \/ PlanCapReached
    \/ PlanFetch
    \/ PlanFetchError
    \/ PlanOverBudget
    \/ PlanAccept
    \/ PlanReturn

SpecPlan == InitPlan /\ [][NextPlan]_vars

\* ================================================== removeCommentsFromLine
\* A line is a sequence of characters: a letter, a blank, the comment
\* introducer, the two quotes and the backslash.

Chars == {"a", " ", "#", "'", "\"", "\\"}

Lines == UNION {[1..n -> Chars] : n \in 0..MaxLineLen}

\* String.prototype.trimEnd
RECURSIVE trimEnd(_)
trimEnd(s) ==
    IF s # <<>> /\ s[Len(s)] = " " THEN trimEnd(SubSeq(s, 1, Len(s) - 1)) ELSE s

\* Mutant of NotEscaped: the look-back is missing.
NotEscapedEver(l, i) == TRUE

\* lines 364, 369: i === 0 || line[i - 1] !== "\\"   (i is 1-based here)
NotEscaped(l, i) == i = 1 \/ l[i - 1] # "\\"

\* lines 363-372: in_single_quote after the character at i
SingleAfter(l, i, single, double) ==
    IF l[i] = "'" /\ ~double /\ NotEscaped(l, i) THEN ~single ELSE single

\* lines 363-372: in_double_quote after the character at i (a single quote
\* outside a double-quoted string takes the first branch, escaped or not)
DoubleAfter(l, i, single, double) ==
    IF l[i] = "'" /\ ~double THEN double
    ELSE IF l[i] = "\"" /\ ~single /\ NotEscaped(l, i) THEN ~double
    ELSE double

InitStrip ==
    /\ line \in Lines
    /\ scan = [i |-> 1, in_single_quote |-> FALSE, in_double_quote |-> FALSE,
               pc |-> "scan", result |-> <<>>]
    /\ NormIdle
    /\ TicketIdle
    /\ PlanIdle
    /\ SortIdle
    /\ CycleIdle
    /\ CombineIdle

\* lines 359-378: one iteration of the loop
StripStep ==
    LET s == SingleAfter(line, scan.i, scan.in_single_quote, scan.in_double_quote)
        d == DoubleAfter(line, scan.i, scan.in_single_quote, scan.in_double_quote)
    IN
    /\ scan.pc = "scan"
    /\ scan.i <= Len(line)
    /\ scan' = IF line[scan.i] = "#" /\ ~s /\ ~d
               THEN [scan EXCEPT !.in_single_quote = s, !.in_double_quote = d,
                                 !.pc = "done",
                                 !.result = trimEnd(SubSeq(line, 1, scan.i - 1))]
               ELSE [scan EXCEPT !.in_single_quote = s, !.in_double_quote = d,
                                 !.i = scan.i + 1]
    /\ UNCHANGED <<line, blobText, norm, ticketVars, planVars, sortVars, cycleVars, combineVars>>

\* line 380: return line
StripReturn ==
    /\ scan.pc = "scan"
    /\ scan.i > Len(line)
    /\ scan' = [scan EXCEPT !.pc = "done", !.result = line]
    /\ UNCHANGED <<line, blobText, norm, ticketVars, planVars, sortVars, cycleVars, combineVars>>

NextStrip ==
    \/ StripStep
    \/ StripReturn

SpecStrip == InitStrip /\ [][NextStrip]_vars

\* ============================================== normalized file content
\* lines 321-326: the text of a blob is split into lines, each line goes
\* through removeCommentsFromLine, the blank ones are dropped and the rest
\* is joined again.

TextChars == {"a", " ", "#", "'", "\n"}

Texts == UNION {[1..n -> TextChars] : n \in 0..MaxTextLen}

\* content.split("\n"): the runs between the line feeds, empty ones included
RECURSIVE split(_)
split(text) ==
    LET feeds == {n \in 1..Len(text) : text[n] = "\n"}
    IN  IF feeds = {} THEN <<text>>
        ELSE LET n == CHOOSE f \in feeds : \A g \in feeds : f <= g
             IN  <<SubSeq(text, 1, n - 1)>> \o split(SubSeq(text, n + 1, Len(text)))

\* lines.join("\n")
RECURSIVE join(_)
join(ls) ==
    IF ls = <<>> THEN <<>>
    ELSE IF Len(ls) = 1 THEN ls[1]
    ELSE Head(ls) \o <<"\n">> \o join(Tail(ls))

\* lines 359-380 as a function: the scan from position i with the two flags
RECURSIVE ScanFrom(_, _, _, _)
ScanFrom(l, i, single, double) ==
    IF i > Len(l) THEN l
    ELSE LET s == SingleAfter(l, i, single, double)
             d == DoubleAfter(l, i, single, double)
         IN  IF l[i] = "#" /\ ~s /\ ~d THEN trimEnd(SubSeq(l, 1, i - 1))
             ELSE ScanFrom(l, i + 1, s, d)

\* lines 354-381
removeCommentsFromLine(l) == ScanFrom(l, 1, FALSE, FALSE)

\* Mutant of IsBlank: only the empty line is blank.
IsEmpty(l) == l = <<>>

\* line 325: line.trim() === ""
IsBlank(l) == \A n \in 1..Len(l) : l[n] = " "

InitNorm ==
    /\ blobText \in Texts
    /\ norm = [idx |-> 1, kept |-> <<>>, content |-> <<>>, pc |-> "lines"]
    /\ line = <<>>
    /\ scan = [i |-> 1, in_single_quote |-> FALSE, in_double_quote |-> FALSE,
               pc |-> "done", result |-> <<>>]
    /\ TicketIdle
    /\ PlanIdle
    /\ SortIdle
    /\ CycleIdle
    /\ CombineIdle

\* lines 323-325 for one line: it is stripped and dropped ...
NormDropLine ==
    LET stripped == removeCommentsFromLine(split(blobText)[norm.idx]) IN
    /\ norm.pc = "lines"
    /\ norm.idx <= Len(split(blobText))
    /\ IsBlank(stripped)
    /\ norm' = [norm EXCEPT !.idx = norm.idx + 1]
    /\ UNCHANGED <<line, scan, blobText, ticketVars, planVars, sortVars, cycleVars,
                   combineVars>>

\* ... or kept
NormKeepLine ==
    LET stripped == removeCommentsFromLine(split(blobText)[norm.idx]) IN
    /\ norm.pc = "lines"
    /\ norm.idx <= Len(split(blobText))
    /\ ~IsBlank(stripped)
    /\ norm' = [norm EXCEPT !.idx = norm.idx + 1, !.kept = Append(norm.kept, stripped)]
    /\ UNCHANGED <<line, scan, blobText, ticketVars, planVars, sortVars, cycleVars,
                   combineVars>>

\* line 326: join("\n")
NormJoin ==
    /\ norm.pc = "lines"
    /\ norm.idx > Len(split(blobText))
    /\ norm' = [norm EXCEPT !.pc = "done", !.content = join(norm.kept)]
    /\ UNCHANGED <<line, scan, blobText, ticketVars, planVars, sortVars, cycleVars,
                   combineVars>>

NextNorm ==
    \/ NormDropLine
    \/ NormKeepLine
    \/ NormJoin

SpecNorm == InitNorm /\ [][NextNorm]_vars

\* ==================================================== combineReviewResults
\* A text is a sequence of pieces: a piece is a character of a number or of
\* a path, or a fixed passage of a template, named in upper case.

DecimalDigits == <<"0", "1", "2", "3", "4", "5", "6", "7", "8", "9">>

\* `${n}` for a non-negative integer: its decimal digits
RECURSIVE NumberText(_)
NumberText(n) ==
    IF n < 10 THEN <<DecimalDigits[n + 1]>>
    ELSE NumberText(n \div 10) \o <<DecimalDigits[(n % 10) + 1]>>

\* f.path: the segments with "/" between them
RECURSIVE PathText(_)
PathText(path) ==
    IF Len(path) = 1 THEN <<path[1]>>
    ELSE <<Head(path), "/">> \o PathText(Tail(path))

\* selectedFiles.map((f) => f.path).join("\n")
RECURSIVE JoinedPaths(_)
JoinedPaths(fs) ==
    IF fs = <<>> THEN <<>>
    ELSE IF Len(fs) = 1 THEN PathText(fs[1])
    ELSE PathText(Head(fs)) \o <<"\n">> \o JoinedPaths(Tail(fs))

\* Mutant of HasPartialNote: the note is added for a full review as well.
HasPartialNoteOrFull(totalFileCount, selectedFileCount) ==
    totalFileCount >= selectedFileCount

\* line 476: totalFileCount > selectedFileCount
HasPartialNote(totalFileCount, selectedFileCount) ==
    totalFileCount > selectedFileCount

\* lines 468-478: summary
Summary(totalFileCount, selectedFiles) ==
    <<"SUMMARY_HEADING", "STATISTICS", "TOTAL_LABEL">> \o NumberText(totalFileCount)
      \o <<"TOTAL_UNIT", "SELECTED_LABEL">>
      \o NumberText(Len(selectedFiles)) \o <<" ", "/", " ">> \o NumberText(totalFileCount)
      \o <<"\n", "LIST_LABEL", "FENCE", "\n">> \o JoinedPaths(selectedFiles)
      \o <<"\n", "FENCE", "\n">>
      \o (IF HasPartialNote(totalFileCount, Len(selectedFiles))
          THEN <<"\n", "PARTIAL_NOTE">> ELSE <<>>)

\* What reviewFileBatch returns: the review, or one of its two errors; and a
\* failure that carries no message.
ReviewResults ==
    { [success |-> TRUE, review |-> "REVIEW", error |-> "none"],
      [success |-> FALSE, review |-> "none", error |-> "AI_EMPTY_RESPONSE"],
      [success |-> FALSE, review |-> "none", error |-> "AI_CALL_FAILED"],
      [success |-> FALSE, review |-> "none", error |-> "none"] }

\* The selections of a repository with total files: one to total files (and
\* no more than the count cap), the first and the others chosen freely.
SelectionsOf(total) ==
    { [i \in 1..n |-> IF i = 1 THEN f ELSE g] :
        n \in 1..(IF total < MAX_FILES_TO_REVIEW THEN total ELSE MAX_FILES_TO_REVIEW),
        f \in PlanPaths, g \in PlanPaths }

\* lines 455-481 as a function of the arguments
combineReviewResults(reviewResult, totalFileCount, selectedFiles) ==
    IF ~reviewResult.success
    THEN [pc |-> "returned", success |-> FALSE,
          error |-> IF reviewResult.error # "none" THEN reviewResult.error
                    ELSE "NO_SPECIFIC_ERROR",
          review |-> <<>>]
    ELSE [pc |-> "returned", success |-> TRUE, error |-> "none",
          review |-> <<reviewResult.review>> \o Summary(totalFileCount, selectedFiles)]

InitCombine ==
    /\ \E r \in ReviewResults, total \in 1..MaxTotalFiles :
         \E sel \in SelectionsOf(total) :
            combineIn = [success |-> r.success, review |-> r.review, error |-> r.error,
                         totalFileCount |-> total, selectedFiles |-> sel]
    /\ combineOut = [pc |-> "called"]
    /\ TicketIdle
    /\ PlanIdle
    /\ SortIdle
    /\ CycleIdle
    /\ StripIdle

\* lines 456-463: the completion result is a failure
CombineFailure ==
    /\ combineOut.pc = "called"
    /\ ~combineIn.success
    /\ combineOut' = combineReviewResults(combineIn, combineIn.totalFileCount,
                                          combineIn.selectedFiles)
    /\ UNCHANGED <<combineIn, ticketVars, planVars, sortVars, cycleVars, stripVars>>

\* lines 465-480: the review with its summary
CombineSuccess ==
    /\ combineOut.pc = "called"
    /\ combineIn.success
    /\ combineOut' = combineReviewResults(combineIn, combineIn.totalFileCount,
                                          combineIn.selectedFiles)
    /\ UNCHANGED <<combineIn, ticketVars, planVars, sortVars, cycleVars, stripVars>>

NextCombine ==
    \/ CombineFailure
    \/ CombineSuccess

SpecCombine == InitCombine /\ [][NextCombine]_vars

\* ===================================================== validateIssueFormat
\* An issue is what the validator reads of its title and body:
\*   title   the title matches /^\[Plugin\]\s+.+$/i and is not the placeholder
\*   checks  the three required declarations are checked
\*   json    the ```json block: missing, not parsable, or parsed to null, to
\*           a scalar (a number, a string, a boolean) or to an object
\*   data    the name, desc and repo of the object; "" stands for a missing
\*           or empty field, "PLACEHOLDER" for 插件名 / 插件介绍.
\* A repo is missing, a string new URL() rejects, or a URL with its host
\* name and the parts of its path.

RepoPaths == { <<>>, <<"acme">>, <<"acme", "foo">>, <<"acme", "foo", "tree">> }

Hosts == {"github.com", "gitlab.com"}

Repos ==
    { NoRepo, [kind |-> "invalid", host |-> "none", path |-> <<>>] }
    \cup { [kind |-> "url", host |-> h, path |-> pa] : h \in Hosts, pa \in RepoPaths }

FieldValues == {"", "PLACEHOLDER", "Foo"}

Issues ==
    { [title |-> t, checks |-> c, json |-> j, data |-> NoPluginData] :
        t \in BOOLEAN, c \in BOOLEAN, j \in {"missing", "unparsable", "null", "scalar"} }
    \cup { [title |-> t, checks |-> c, json |-> "object",
            data |-> [name |-> n, desc |-> d, repo |-> r]] :
           t \in BOOLEAN, c \in BOOLEAN, n \in FieldValues, d \in FieldValues, r \in Repos }

\* lines 533-544: the errors about pluginData.repo
RepoErrors(repo) ==
    CASE repo.kind = "missing" -> <<"REPO_MISSING">>
      [] repo.kind = "invalid" -> <<"REPO_URL_INVALID">>
      [] repo.host # "github.com" -> <<"REPO_HOST">>
      [] OTHER -> <<>>

\* lines 492-509: the errors about the title and the declarations
HeaderErrors(issue) ==
    (IF issue.title THEN <<>> ELSE <<"TITLE">>)
      \o (IF issue.checks THEN <<>> ELSE <<"DECLARATIONS">>)

\* lines 529-532: a field that is missing, empty or the placeholder
FieldErrors(value, error) ==
    IF value = "" \/ value = "PLACEHOLDER" THEN <<error>> ELSE <<>>

\* lines 488-549: raises is the TypeError of pluginData.name on null
validateIssueFormat(issue) ==
    LET fail(errs) == [raises |-> FALSE, success |-> FALSE, errors |-> errs,
                       pluginData |-> NoPluginData]
        \* a scalar has no name, desc or repo
        data == IF issue.json = "object" THEN issue.data ELSE NoPluginData
        errors == HeaderErrors(issue) \o FieldErrors(data.name, "NAME")
                    \o FieldErrors(data.desc, "DESC") \o RepoErrors(data.repo)
    IN  CASE issue.json = "missing" -> fail(HeaderErrors(issue) \o <<"NO_JSON_BLOCK">>)
          [] issue.json = "unparsable" -> fail(HeaderErrors(issue) \o <<"JSON_SYNTAX">>)
          [] issue.json = "null" ->
                [raises |-> TRUE, success |-> FALSE, errors |-> HeaderErrors(issue),
                 pluginData |-> NoPluginData]
          [] OTHER ->
                IF Len(errors) > 0 THEN fail(errors)
                ELSE [raises |-> FALSE, success |-> TRUE, errors |-> <<>>,
                      pluginData |-> data]

\* What the validator does on the issue, as the cycle sees it.
FormatOf(issue) ==
    LET r == validateIssueFormat(issue)
    IN  IF r.raises THEN "throws" ELSE IF r.success THEN "valid" ELSE "invalid"

\* ============================================================ one cycle
\* SpecCycle follows one call of handlePluginReview (line 61) and the catch
\* around it, alone on the ticket, through every external call it makes:
\* the cycle of the opening, or the cycle of a qualifying edit after its
\* un-check write. The planner's steps are those of SpecPlan.
\*
\* cycle.issue is the event's issue, cycle.payload.fmt what the validator
\* does on it, and cycle.repo the path of pluginData.repo, split at "/" with
\* the empty parts dropped; the validator looks at the host name only
\* (lines 537-540), so it accepts a path of any length.

\* An item of the tree that getTree returns.
TreeItems ==
    { [type |-> "blob", path |-> d.path, ok |-> d.ok, contentLength |-> d.contentLength] :
        d \in Descriptors }
    \cup { [type |-> "tree", path |-> <<"pkg">>, ok |-> FALSE, contentLength |-> 0],
           [type |-> "blob", path |-> <<"readme.md">>, ok |-> FALSE, contentLength |-> 0] }

\* item.path?.endsWith(".py")
endsWithPy(path) == path[Len(path)] \in {"a.py", "b.py", "domain.py", "main.py"}

\* lines 178-180: the filter of fetchPythonFileTree
IsPythonBlob(item) == item.type = "blob" /\ endsWithPy(item.path)

\* lines 172-180: what fetchPythonFileTree returns for a tree
pythonFiles(tree) ==
    LET blobs == SelectSeq(tree, IsPythonBlob)
    IN  [i \in 1..Len(blobs) |->
            [path |-> blobs[i].path, ok |-> blobs[i].ok,
             contentLength |-> blobs[i].contentLength]]

\* One step of the stable sort of descriptors under the code's comparator.
InsertFile(out, f) ==
    LET k == Cardinality({i \in 1..Len(out) : compare(out[i].path, f.path) <= 0})
    IN  SubSeq(out, 1, k) \o <<f>> \o SubSeq(out, k + 1, Len(out))

\* lines 270-285 as a function
RECURSIVE sortFilesByPriority(_)
sortFilesByPriority(fs) ==
    IF fs = <<>> THEN <<>>
    ELSE InsertFile(sortFilesByPriority(SubSeq(fs, 1, Len(fs) - 1)), fs[Len(fs)])

\* The trees getTree returns: every tree of up to MaxTree items, and trees
\* of one small file repeated past the count cap.
Trees ==
    UNION {[1..n -> TreeItems] : n \in 0..MaxTree}
    \cup { [i \in 1..(MAX_FILES_TO_REVIEW + 1) |->
              [type |-> "blob", path |-> pa, ok |-> TRUE, contentLength |-> 1000]] :
           pa \in PlanPaths }

\* The status a qualifying edit finds in the comment it remembers.
RetriggerKinds == {"format_error", "review_failure"}

InitCycle ==
    /\ \E issue \in Issues, t \in UserToks, upd \in BOOLEAN, k \in RetriggerKinds :
         LET pl == [fmt |-> FormatOf(issue), toks |-> t] IN
         /\ upd => HasCheckedBox(pl.toks)
         /\ ~upd => k = "format_error"
         /\ cycle = [CycleIdleValue EXCEPT !.pc = "started", !.payload = pl,
                                           !.issue = issue,
                                           !.repo = issue.data.repo.path,
                                           !.isUpdate = upd,
                                           !.currentCommentId = IF upd THEN 1 ELSE NoId]
         /\ comments = IF upd THEN <<[bot |-> TRUE, kind |-> k, sys |-> FALSE]>> ELSE <<>>
         /\ body = IF upd THEN [pl EXCEPT !.toks = UncheckBoxes(pl.toks)] ELSE pl
         /\ bodyWriter = IF upd THEN "uncheck" ELSE "user"
    /\ log = <<>>
    /\ procs = EmptyBag
    /\ delivered = 0
    /\ failures = 0
    /\ labelled = TRUE
    /\ PlanIdle
    /\ SortIdle
    /\ StripIdle
    /\ CombineIdle

\* Mutant of OnFormatResult: the review goes on after a format error.
OnFormatResultIgnored(c) ==
    IF c.payload.fmt = "throws" THEN [c EXCEPT !.pc = "syserr"]
    ELSE [c EXCEPT !.pc = "review"]

\* lines 88-98: validateIssueFormat raises, lists errors, or succeeds
OnFormatResult(c) ==
    CASE c.payload.fmt = "throws"  -> [c EXCEPT !.pc = "syserr"]
      [] c.payload.fmt = "invalid" ->
            [c EXCEPT !.pc = "post", !.type = "format_error",
                      !.result = [NoResult EXCEPT !.error = "FORMAT_ERRORS"]]
      [] OTHER -> [c EXCEPT !.pc = "review"]

\* Mutant of OnPipelineFailure: the error leaves reviewPlugin.
OnPipelineFailureEscapes(c, reason) == [c EXCEPT !.pc = "syserr"]

\* lines 113-120, 137-140, 148-151, 230-233, 247-251: a failure result with
\* its message goes to the review_failure write
OnPipelineFailure(c, reason) ==
    [c EXCEPT !.pc = "post", !.type = "review_failure",
              !.result = [NoResult EXCEPT !.error = reason]]

\* lines 79-85: the Started comment
CyclePostStarted ==
    /\ cycle.pc = "started"
    /\ \E ok \in BOOLEAN :
         /\ comments' = PostedComments(comments, "review_started", cycle.isUpdate,
                                       cycle.currentCommentId, ok)
         /\ cycle' = [cycle EXCEPT
                 !.pc = "validate",
                 !.currentCommentId =
                     PostedCommentId(comments, cycle.isUpdate, cycle.currentCommentId, ok),
                 !.posted = [type |-> "review_started", text |-> "none", ok |-> ok]]
    /\ log' = Append(log, Ev("comment.started", 0))
    /\ UNCHANGED <<body, procs, delivered, failures, bodyWriter, labelled,
                   planVars, sortVars, stripVars, combineVars>>

\* lines 88-98: validateIssueFormat on the event's issue
CycleValidate ==
    /\ cycle.pc = "validate"
    /\ cycle' = OnFormatResult(cycle)
    /\ log' = Append(log, Ev("validateIssueFormat", 0))
    /\ UNCHANGED <<ticketVars, planVars, sortVars, stripVars, combineVars>>

\* lines 133-143: owner and repo from the path of the repository URL
CycleParseRepo ==
    /\ cycle.pc = "review"
    /\ cycle' = IF Len(cycle.repo) < 2
                THEN OnPipelineFailure(cycle, "INVALID_REPOSITORY_URL")
                ELSE [cycle EXCEPT !.pc = "repo",
                                   !.repoInfo = [owner |-> cycle.repo[1],
                                                 repo |-> cycle.repo[2]]]
    /\ UNCHANGED <<log, ticketVars, planVars, sortVars, stripVars, combineVars>>

\* line 164: repos.get, for the default branch
CycleGetRepo ==
    /\ cycle.pc = "repo"
    /\ \E ok \in BOOLEAN :
         cycle' = IF ok THEN [cycle EXCEPT !.pc = "tree"]
                  ELSE OnPipelineFailure(cycle, "ERROR_WHILE_FETCHING_OR_ANALYZING")
    /\ log' = Append(log, Ev("repos.get", 0))
    /\ UNCHANGED <<ticketVars, planVars, sortVars, stripVars, combineVars>>

\* lines 166-180 and 229-244: getTree raises or returns a tree; the Python
\* blobs are sorted and the planner is entered, unless there is none
CycleGetTree ==
    /\ cycle.pc = "tree"
    /\ log' = Append(log, Ev("git.getTree", 0))
    /\ \/ /\ cycle' = OnPipelineFailure(cycle, "ERROR_WHILE_FETCHING_OR_ANALYZING")
          /\ UNCHANGED planVars
       \/ \E tree \in Trees :
            LET allPythonFiles == pythonFiles(tree) IN
            IF Len(allPythonFiles) = 0
            THEN /\ cycle' = OnPipelineFailure(cycle, "NO_PYTHON_FILES_FOUND")
                 /\ UNCHANGED planVars
            ELSE /\ cycle' = [cycle EXCEPT !.pc = "plan",
                                           !.totalFileCount = Len(allPythonFiles)]
                 /\ files' = sortFilesByPriority(allPythonFiles)
                 /\ maxInputTokens' \in MaxInputTokenValues
                 /\ plan' = PlanStart
    /\ UNCHANGED <<ticketVars, sortVars, stripVars, combineVars>>

\* lines 246-252: the planner has returned
CycleSelected ==
    /\ cycle.pc = "plan"
    /\ plan.pc = "done"
    /\ cycle' = IF Len(plan.selected) = 0
                THEN OnPipelineFailure(cycle, "NO_FILES_SELECTED")
                ELSE [cycle EXCEPT !.pc = "completion"]
    /\ UNCHANGED <<log, ticketVars, planVars, sortVars, stripVars, combineVars>>

\* The paths of the selected files.
selectedFiles == [k \in 1..Len(plan.selected) |-> files[plan.selected[k]].path]

\* What openai.chat.completions.create does: it raises, or it returns a
\* completion whose message content is empty (or null), or one with a text.
CompletionOutcomes == {"raises", "empty", "text"}

\* Mutant of reviewFileBatch: an empty response is passed on as the review.
reviewFileBatchKeepsEmpty(fs, outcome) ==
    IF Len(fs) = 0
    THEN [success |-> FALSE, review |-> "none", error |-> "NO_FILES_FOR_REVIEW"]
    ELSE CASE outcome = "raises" ->
                [success |-> FALSE, review |-> "none", error |-> "AI_CALL_FAILED"]
           [] outcome = "empty" ->
                [success |-> TRUE, review |-> "EMPTY", error |-> "none"]
           [] OTHER ->
                [success |-> TRUE, review |-> "REVIEW", error |-> "none"]

\* lines 390-430: the result of reviewFileBatch for the files and for what
\* the completion request does
reviewFileBatch(fs, outcome) ==
    IF Len(fs) = 0
    THEN [success |-> FALSE, review |-> "none", error |-> "NO_FILES_FOR_REVIEW"]
    ELSE CASE outcome = "raises" ->
                [success |-> FALSE, review |-> "none", error |-> "AI_CALL_FAILED"]
           [] outcome = "empty" ->
                [success |-> FALSE, review |-> "none", error |-> "AI_EMPTY_RESPONSE"]
           [] OTHER ->
                [success |-> TRUE, review |-> "REVIEW", error |-> "none"]

\* lines 255-262 and 390-430: the one completion request and the combiner
CycleCompletion ==
    /\ cycle.pc = "completion"
    /\ \E outcome \in CompletionOutcomes :
         LET reviewResult == reviewFileBatch(selectedFiles, outcome)
             combined == combineReviewResults(reviewResult, cycle.totalFileCount,
                                              selectedFiles)
             c == [cycle EXCEPT !.completion = outcome]
         IN  cycle' = IF combined.success
                      THEN [c EXCEPT !.pc = "post", !.type = "review_success",
                                     !.result = [success |-> TRUE, error |-> "none",
                                                 review |-> combined.review]]
                      ELSE OnPipelineFailure(c, combined.error)
    /\ log' = IF Len(selectedFiles) = 0 THEN log
              ELSE Append(log, Ev("chat.completions.create", 0))
    /\ UNCHANGED <<ticketVars, planVars, sortVars, stripVars, combineVars>>

\* lines 90-96, 106-120 and 606-622: the terminal comment write
CyclePostTerminal ==
    /\ cycle.pc = "post"
    /\ \E ok \in BOOLEAN :
         /\ comments' = PostedComments(comments, cycle.type, TRUE,
                                       cycle.currentCommentId, ok)
         /\ cycle' = [cycle EXCEPT
                 !.pc = "bodyopt",
                 !.posted = [type |-> cycle.type,
                             text |-> IF cycle.result.success THEN "REVIEW"
                                      ELSE cycle.result.error,
                             ok |-> ok]]
    /\ log' = Append(log, Ev("comment.terminal", 0))
    /\ UNCHANGED <<body, procs, delivered, failures, bodyWriter, labelled,
                   planVars, sortVars, stripVars, combineVars>>

\* line 624: updateIssueBodyForReviewOptions
CycleUpdateBody ==
    LET toks == cycle.payload.toks IN
    /\ cycle.pc = "bodyopt"
    /\ cycle' = [cycle EXCEPT !.pc = "returned"]
    /\ IF WritesReviewOptions(toks, cycle.type)
       THEN /\ log' = Append(log, Ev("issues.update", 0))
            /\ \E ok \in BOOLEAN :
                 IF ok
                 THEN /\ body' = [cycle.payload EXCEPT
                                     !.toks = ReviewOptionsBody(toks, cycle.type)]
                      /\ bodyWriter' = IF cycle.isUpdate THEN "options_edited"
                                       ELSE "options_opened"
                 ELSE UNCHANGED <<body, bodyWriter>>
       ELSE UNCHANGED <<log, body, bodyWriter>>
    /\ UNCHANGED <<comments, procs, delivered, failures, labelled,
                   planVars, sortVars, stripVars, combineVars>>

\* lines 62-63 and 674-685: the catch of the handler
CyclePostSystemError ==
    /\ cycle.pc = "syserr"
    /\ \E ok \in BOOLEAN :
         comments' = IF ok
                     THEN Append(comments,
                              [bot |-> TRUE, kind |-> "system_error", sys |-> TRUE])
                     ELSE comments
    /\ cycle' = [cycle EXCEPT !.pc = "returned"]
    /\ log' = Append(log, Ev("comment.system_error", 0))
    /\ UNCHANGED <<body, procs, delivered, failures, bodyWriter, labelled,
                   planVars, sortVars, stripVars, combineVars>>

NextCycle ==
    \/ CyclePostStarted
    \/ CycleValidate
    \/ CycleParseRepo
    \/ CycleGetRepo
    \/ CycleGetTree
    \/ NextPlan
    \/ CycleSelected
    \/ CycleCompletion
    \/ CyclePostTerminal
    \/ CycleUpdateBody
    \/ CyclePostSystemError

SpecCycle == InitCycle /\ [][NextCycle]_vars

\* Every call of a cycle returns, with a result or with an error: a cycle
\* that can take a step takes one.
SpecCycleFair == SpecCycle /\ WF_vars(NextCycle)

\* ======================================================== the claims
\* Vocabulary of the claims.

\* The four templates of postOrUpdateComment: the kinds of a status comment.
StatusKinds == {"review_started", "format_error", "review_failure", "review_success"}

\* The newest bot comment whose body is a status template, or NoId.
LatestStatusId(cs) ==
    LET ids == {i \in 1..Len(cs) : cs[i].bot /\ cs[i].kind \in StatusKinds}
    IN  IF ids = {} THEN NoId ELSE CHOOSE i \in ids : \A j \in ids : j <= i

\* The program counters of a handler inside handlePluginReview or the catch.
InCycle == {"started", "review", "post", "bodyopt", "syserr"}

\* Handler p takes the step from pc `from` to pc `to` in this transition.
Moves(p, from, to) ==
    /\ p.pc = from
    /\ CopiesIn(p, procs') < CopiesIn(p, procs)
    /\ \E q \in BagToSet(procs') :
         /\ q.pc = to /\ q.action = p.action /\ q.payload = p.payload
         /\ CopiesIn(q, procs') > CopiesIn(q, procs)

\* Handler p returns in this transition.
Returns(p, from) ==
    /\ p.pc = from
    /\ CopiesIn(p, procs') < CopiesIn(p, procs)
    /\ \A q \in BagToSet(procs') :
         CopiesIn(q, procs') > CopiesIn(q, procs) => q.pc = "start"

NumSections(toks) == Cardinality({i \in 1..Len(toks) : toks[i] = "H"})

\* exactly one heading, and the line after it is the unchecked box
OneUncheckedSection(toks) ==
    /\ NumSections(toks) = 1
    /\ \E i \in 1..Len(toks) - 1 : toks[i] = "H" /\ toks[i + 1] = "U"

\* C1: an edit of a labelled ticket starts a cycle (its first write, the
\* un-check of the body) only if a status comment exists, the newest status
\* comment is FormatError or Failure, and the event's body has the box checked.
\* Stated as the claim, for the runs in which no external call has failed: it
\* fails on the code, see C7.
C1_EditActsOnlyAfterFormatErrorOrFailure ==
    [][\A p \in BagToSet(procs) :
          (p.action = "edited" /\ Moves(p, "start", "uncheck") /\ failures' = 0) =>
              LET id == LatestStatusId(comments) IN
              /\ id # NoId
              /\ comments[id].kind \in {"format_error", "review_failure"}
              /\ HasCheckedBox(p.payload.toks)]_vars

\* C2: of two edits handled concurrently, both with the box checked, at most
\* one gets into a review cycle. Stated as the claim, for the runs in which no
\* external call has failed: it fails on the code.
C2_AtMostOneConcurrentEditCycle ==
    LET running == {p \in BagToSet(procs) : p.action = "edited" /\ p.pc \in InCycle}
    IN  \/ failures > 0
        \/ running = {}
        \/ \E p \in running : running = {p} /\ CopiesIn(p, procs) = 1

\* C3: at most one bot comment of the ticket is one the engine would pick as
\* the status comment. Stated as the claim: it fails on the code, see C7.
C3_AtMostOneLiveStatusComment ==
    Cardinality({i \in 1..Len(comments) : IsReviewComment(comments[i])}) <= 1

C5_FailureLeavesOneUncheckedSection ==
    [][\A p \in BagToSet(procs) :
          (/\ p.type \in {"format_error", "review_failure"}
           /\ Returns(p, "bodyopt")
           /\ failures' = 0) => OneUncheckedSection(body'.toks)]_vars

C7_SystemErrorCommentNotSelected ==
    \A p \in BagToSet(procs) :
        (p.isUpdate /\ p.commentToUpdateId # NoId /\ failures = 0) =>
            ~comments[p.commentToUpdateId].sys
\* The indices of the descriptors whose fetch succeeds, in list order.
OkIndices == {i \in 1..Len(files) : files[i].ok}

\* The sum of the estimates of the selected files.
RECURSIVE SumEstimates(_)
SumEstimates(sel) ==
    IF sel = <<>> THEN 0
    ELSE estimatedTokens(files[Head(sel)].path, files[Head(sel)].contentLength)
           + SumEstimates(Tail(sel))

\* C8: the selection is, in order, a prefix of the descriptors whose fetch
\* succeeded: the k-th selected file is the k-th of them, so no file is
\* selected after one that was fetched and did not fit.
C8_SelectionIsPrefixOfFetched ==
    /\ Len(plan.selected) <= Cardinality(OkIndices)
    /\ \A k \in 1..Len(plan.selected) :
          /\ plan.selected[k] \in OkIndices
          /\ Cardinality({i \in OkIndices : i < plan.selected[k]}) = k - 1

\* C8 witness: the scan has ended on a file that did not fit, a later file
\* that was never selected fetches well and would have fitted, and at least
\* one earlier file failed to fetch and was skipped.
C8_Witness ==
    /\ plan.pc = "done"
    /\ plan.idx <= Len(files)
    /\ Len(plan.selected) >= 1
    /\ \E e \in 1..Len(files) : ~files[e].ok /\ e < plan.selected[Len(plan.selected)]
    /\ \E j \in OkIndices :
          /\ j > plan.idx
          /\ ~OverLimit(plan.totalEstimatedTokens
                          + estimatedTokens(files[j].path, files[j].contentLength),
                        maxInputTokens)

\* C9: in a planning pass the consumed total is the sum of the estimates of
\* the selected files, is at most 70% of maxInputTokens, and never decreases.
C9_ConsumedWithinBudget ==
    /\ [](/\ plan.totalEstimatedTokens = SumEstimates(plan.selected)
          /\ 10 * plan.totalEstimatedTokens <= 7 * maxInputTokens)
    /\ [][plan'.totalEstimatedTokens >= plan.totalEstimatedTokens]_vars

\* C9 witness: the pass has ended with several files selected and less than
\* one more regular file's template left of the budget.
C9_Witness ==
    /\ plan.pc = "done"
    /\ Len(plan.selected) >= 2
    /\ OverLimit(plan.totalEstimatedTokens + regularPromptTokens, maxInputTokens)

\* The claim's entry-point file: a file named main.py.
IsEntryPoint(path) == path[Len(path)] = "main.py"

IsPermutation(a, b) ==
    /\ Len(a) = Len(b)
    /\ \A x \in SortPaths :
          Cardinality({i \in 1..Len(a) : a[i] = x})
            = Cardinality({i \in 1..Len(b) : b[i] = x})

\* C10: the sorted list is a permutation of the input, every main.py file
\* precedes every other file (so one is first when there is one), and the
\* other files are in ascending depth, and lexicographic within a depth.
\* Stated as the claim: it fails on the code.
C10_EntryPointFirstThenDepthThenPath ==
    sortPos > Len(sortIn) =>
        /\ IsPermutation(sortOut, sortIn)
        /\ \A i, j \in 1..Len(sortOut) :
              (IsEntryPoint(sortOut[i]) /\ ~IsEntryPoint(sortOut[j])) => i < j
        /\ \A i, j \in 1..Len(sortOut) :
              (i < j /\ ~IsEntryPoint(sortOut[i]) /\ ~IsEntryPoint(sortOut[j])) =>
                  \/ Len(sortOut[i]) < Len(sortOut[j])
                  \/ /\ Len(sortOut[i]) = Len(sortOut[j])
                     /\ localeCompare(sortOut[i], sortOut[j]) <= 0
        /\ (\E i \in 1..Len(sortOut) : IsEntryPoint(sortOut[i])) =>
              IsEntryPoint(sortOut[1])

\* The two flags after the first n characters of l, as the claim defines
\* them: a quote toggles its own flag only when the other flag is false and
\* the character before it is not a backslash.
RECURSIVE QuoteFlags(_, _)
QuoteFlags(l, n) ==
    IF n = 0 THEN [single |-> FALSE, double |-> FALSE]
    ELSE LET f == QuoteFlags(l, n - 1)
             unescaped == n = 1 \/ l[n - 1] # "\\"
         IN  CASE l[n] = "'" /\ ~f.double /\ unescaped -> [f EXCEPT !.single = ~f.single]
               [] l[n] = "\"" /\ ~f.single /\ unescaped -> [f EXCEPT !.double = ~f.double]
               [] OTHER -> f

\* The positions of l that hold a comment introducer outside every string.
CommentStarts(l) ==
    {n \in 1..Len(l) :
        l[n] = "#" /\ ~QuoteFlags(l, n).single /\ ~QuoteFlags(l, n).double}

WithoutTrailingBlanks(s) ==
    LET keep == {n \in 0..Len(s) : \A k \in (n + 1)..Len(s) : s[k] = " "}
    IN  SubSeq(s, 1, CHOOSE n \in keep : \A m \in keep : n <= m)

\* C11: removeCommentsFromLine returns the line cut at the first comment
\* introducer that is outside both kinds of string, trailing blanks trimmed,
\* and the line as it is when there is none; and while it scans, its two
\* flags are the ones the toggling rule gives.
C11_TruncatesAtFirstCommentOutsideStrings ==
    /\ scan.pc = "scan" =>
          /\ scan.in_single_quote = QuoteFlags(line, scan.i - 1).single
          /\ scan.in_double_quote = QuoteFlags(line, scan.i - 1).double
    /\ scan.pc = "done" =>
          LET starts == CommentStarts(line) IN
          IF starts = {} THEN scan.result = line
          ELSE LET first == CHOOSE n \in starts : \A m \in starts : n <= m
               IN  scan.result = WithoutTrailingBlanks(SubSeq(line, 1, first - 1))

\* C11 witness: a line with an introducer inside a string and a comment with
\* blanks before it: the first is kept, the line is cut at the second and
\* the blanks are gone.
C11_Witness ==
    /\ scan.pc = "done"
    /\ scan.result # line
    /\ \E n \in 1..Len(scan.result) : scan.result[n] = "#"
    /\ Len(scan.result) < scan.i - 1

\* text has sub as a run of consecutive pieces
ContainsText(text, sub) ==
    \E k \in 0..(Len(text) - Len(sub)) :
        \A j \in 1..Len(sub) : text[k + j] = sub[j]

\* The decimal numeral of n, digit by digit (n < 100).
Numeral(n) ==
    LET digit(d) == DecimalDigits[d + 1]
    IN  IF n < 10 THEN <<digit(n)>> ELSE <<digit(n \div 10), digit(n % 10)>>

\* The claim's fraction: the two numerals with " / " between them.
FractionText(selected, total) == Numeral(selected) \o <<" ", "/", " ">> \o Numeral(total)

\* C12: for a successful completion result the combiner returns the review
\* text, then a summary that has the fraction "selected / total" and the list
\* of the selected paths; and the partial-review note is there exactly when
\* fewer files were selected than were found.
C12_SummaryHasFractionListAndNote ==
    (combineOut.pc = "returned" /\ combineIn.success) =>
        LET sel == combineIn.selectedFiles
            total == combineIn.totalFileCount
        IN
        /\ combineOut.success
        /\ Head(combineOut.review) = combineIn.review
        /\ ContainsText(Tail(combineOut.review), FractionText(Len(sel), total))
        /\ ContainsText(Tail(combineOut.review), JoinedPaths(sel))
        /\ \A k \in 1..Len(sel) : ContainsText(Tail(combineOut.review), PathText(sel[k]))
        /\ ContainsText(combineOut.review, <<"PARTIAL_NOTE">>) <=> Len(sel) < total

\* C12 witness: 4 of 10 files, the summary has "4 / 10" and the note.
C12_Witness ==
    /\ combineOut.pc = "returned"
    /\ combineIn.success
    /\ combineIn.totalFileCount = 10
    /\ Len(combineIn.selectedFiles) = 4
    /\ ContainsText(combineOut.review, <<"4", " ", "/", " ", "1", "0">>)
    /\ ContainsText(combineOut.review, <<"PARTIAL_NOTE">>)

\* C14: on a ticket without the plugin-publish label no handler issues an
\* external call: no comment is created or updated, the body is only ever
\* what the submitter wrote, and no handler gets past its first statement.
C14_UnlabelledTicketIsLeftAlone ==
    ~labelled =>
        /\ comments = <<>>
        /\ bodyWriter = "user"
        /\ failures = 0
        /\ \A p \in BagToSet(procs) : p.pc = "start"

\* C14 witness: an unlabelled ticket whose opening and an edit with the box
\* checked have both been handled.
C14_Witness ==
    /\ ~labelled
    /\ delivered >= 2
    /\ procs = EmptyBag
    /\ body.toks = <<"H", "X">>

\* The comments whose body the transition writes or that it creates.
WrittenComments ==
    {i \in 1..Len(comments') : i > Len(comments) \/ comments'[i] # comments[i]}

\* C15: a handler past Started keeps the id that received Started and its
\* terminal write goes to that id; in a cycle an edit started, that id is
\* the remembered id of the prior status comment (a comment that
\* postOrUpdateComment wrote, not the system-error comment) and the cycle
\* creates no comment from a status template; and the comments created from
\* a status template are at most one. Stated as the claim, for the runs in
\* which no external call has failed: it fails on the code, see C7.
C15_OneStatusCommentIdPerCycle ==
    /\ [](\A p \in BagToSet(procs) :
            (p.isUpdate /\ p.pc \in InCycle /\ failures = 0) =>
                /\ p.currentCommentId = p.commentToUpdateId
                /\ p.currentCommentId # NoId
                /\ ~comments[p.currentCommentId].sys)
    /\ [](Cardinality({i \in 1..Len(comments) : ~comments[i].sys}) <= 1)
    /\ [][\A p \in BagToSet(procs) :
            /\ (Moves(p, "post", "bodyopt") /\ p.currentCommentId # NoId) =>
                  /\ WrittenComments \subseteq {p.currentCommentId}
                  /\ Len(comments') = Len(comments)
            /\ (Moves(p, "post", "bodyopt") /\ p.currentCommentId = NoId) =>
                  /\ p.action = "opened"
                  /\ \A i \in 1..Len(comments) : comments[i].sys
            /\ (p.pc = "started" /\ CopiesIn(p, procs') < CopiesIn(p, procs)) =>
                  \E q \in BagToSet(procs') :
                     /\ CopiesIn(q, procs') > CopiesIn(q, procs)
                     /\ WrittenComments \subseteq {q.currentCommentId}
                     /\ p.isUpdate => Len(comments') = Len(comments)]_vars

\* The positions of the log that hold an entry of one of the given names.
LogPositions(names) == {k \in 1..Len(log) : log[k].ev \in names}

\* The descriptors the log has an entry of one of the given names for.
Logged(names) == {log[k].idx : k \in LogPositions(names)}

\* C17: a failed fetch leaves the selection and the consumed total as they
\* are and moves the scan to the next descriptor; and when the scan is over,
\* every descriptor that follows a skipped one was fetched and then accepted,
\* skipped or budget-rejected in its turn.
C17_FetchFailureSkipsOnlyThatFile ==
    /\ [][(Fetching /\ ~files[plan.idx].ok) =>
            /\ plan'.selected = plan.selected
            /\ plan'.totalEstimatedTokens = plan.totalEstimatedTokens
            /\ plan'.pc = "loop"
            /\ plan'.idx = plan.idx + 1]_vars
    /\ [](plan.pc = "done" =>
            \A i \in Logged({"skipped"}) :
                i < Len(files) =>
                    /\ i + 1 \in Logged({"getBlob"})
                    /\ i + 1 \in Logged({"accepted", "skipped", "rejected"}))

\* C17 witness: the scan is over, a fetch failed after a file had been
\* selected, and a later file was selected all the same.
C17_Witness ==
    /\ plan.pc = "done"
    /\ \E i \in Logged({"skipped"}) :
          /\ \E k \in 1..Len(plan.selected) : plan.selected[k] < i
          /\ \E k \in 1..Len(plan.selected) : plan.selected[k] > i

\* C18: the blobs are fetched one at a time in list order: the n-th fetch is
\* of the n-th descriptor, it is issued right after the file before it was
\* accepted or skipped, at most one fetch is awaited at any time, and
\* nothing is fetched once a file was rejected for the budget or the count
\* cap was reached.
C18_FetchesAreSerialAndStopWithTheScan ==
    /\ \A k \in LogPositions({"getBlob"}) :
          /\ log[k].idx = Cardinality({j \in LogPositions({"getBlob"}) : j <= k})
          /\ IF log[k].idx = 1 THEN k = 1
             ELSE /\ log[k - 1].ev \in {"accepted", "skipped"}
                  /\ log[k - 1].idx = log[k].idx - 1
    /\ Cardinality(LogPositions({"getBlob"}))
         - Cardinality(LogPositions({"accepted", "skipped", "rejected"})) \in {0, 1}
    /\ \A k \in LogPositions({"rejected", "capped"}) : k = Len(log)

\* C18 witness: three blobs were fetched, the third did not fit, and the
\* descriptors after it were never fetched.
C18_Witness ==
    /\ plan.pc = "done"
    /\ Cardinality(LogPositions({"getBlob"})) = 3
    /\ log[Len(log)] = Ev("rejected", 3)
    /\ Len(files) > 3

\* C19: the selection never holds more than MAX_FILES_TO_REVIEW files.
C19_SelectionWithinCountCap ==
    Len(plan.selected) <= MAX_FILES_TO_REVIEW

\* C19 witness: the cap ended the scan with descriptors left, one fetch
\* having failed on the way.
C19_Witness ==
    /\ plan.pc = "done"
    /\ Len(plan.selected) = MAX_FILES_TO_REVIEW
    /\ plan.idx <= Len(files)
    /\ Logged({"skipped"}) # {}
    /\ log[Len(log)].ev = "capped"

\* The program counters of a followed cycle after its review pipeline.
AfterPipeline == {"post", "bodyopt", "returned"}

\* C13: a cycle whose ticket passes validation calls the repository reader,
\* with the owner and the repository name that are the first two parts of
\* the URL's path; a tree without a Python blob, or a planner that selects
\* nothing, ends the cycle in Failure with its own reason and without a
\* completion request. Stated as the claim: it fails on the code, see C22.
C13_ValidTicketReachesRepositoryReader ==
    /\ (cycle.payload.fmt = "valid" /\ cycle.pc \in AfterPipeline) =>
          /\ "repos.get" \in {log[k].ev : k \in 1..Len(log)}
          /\ Len(cycle.repo) >= 2
          /\ cycle.repoInfo = [owner |-> cycle.repo[1], repo |-> cycle.repo[2]]
    /\ cycle.pc \in {"plan", "completion"} => Len(files) > 0
    /\ (cycle.pc \in AfterPipeline /\ cycle.totalFileCount > 0 /\ plan.selected = <<>>) =>
          cycle.result.error = "NO_FILES_SELECTED"
    /\ cycle.result.error \in {"NO_PYTHON_FILES_FOUND", "NO_FILES_SELECTED"} =>
          /\ cycle.type = "review_failure"
          /\ LogPositions({"chat.completions.create"}) = {}

\* The messages of a review pipeline that failed.
PipelineErrors ==
    {"INVALID_REPOSITORY_URL", "ERROR_WHILE_FETCHING_OR_ANALYZING",
     "NO_PYTHON_FILES_FOUND", "NO_FILES_SELECTED", "AI_EMPTY_RESPONSE", "AI_CALL_FAILED"}

\* C16: after a successful validation nothing reaches the handler's catch;
\* a pipeline that failed makes the cycle a Failure, whose terminal write is
\* the review_failure template with the pipeline's message, sent to the
\* cycle's status comment (which shows Failure when the tracker accepts the
\* write), and no system-error comment is posted.
C16_PipelineErrorBecomesFailure ==
    /\ cycle.pc = "syserr" => cycle.payload.fmt = "throws"
    /\ (cycle.payload.fmt = "valid" /\ cycle.pc \in AfterPipeline
          /\ ~cycle.result.success) => cycle.result.error \in PipelineErrors
    /\ cycle.result.error \in PipelineErrors =>
          /\ cycle.pc \in AfterPipeline
          /\ cycle.type = "review_failure"
          /\ LogPositions({"comment.system_error"}) = {}
          /\ \A i \in 1..Len(comments) : ~comments[i].sys
          /\ cycle.pc \in {"bodyopt", "returned"} =>
                /\ cycle.posted.type = "review_failure"
                /\ cycle.posted.text = cycle.result.error
                /\ cycle.posted.ok =>
                      comments[IF cycle.currentCommentId # NoId
                               THEN cycle.currentCommentId
                               ELSE Len(comments)].kind = "review_failure"

\* C16 witness: the cycle of an edit has returned after getTree raised, and
\* the remembered comment shows Failure.
C16_Witness ==
    /\ cycle.pc = "returned"
    /\ cycle.isUpdate
    /\ cycle.result.error = "ERROR_WHILE_FETCHING_OR_ANALYZING"
    /\ log[Len(log) - 1] = Ev("git.getTree", 0)
    /\ comments = <<[bot |-> TRUE, kind |-> "review_failure", sys |-> FALSE]>>

\* The place of a log entry in the order of a cycle's calls.
CallRank(ev) ==
    CASE ev = "comment.started" -> 1
      [] ev = "validateIssueFormat" -> 2
      [] ev = "repos.get" -> 3
      [] ev = "git.getTree" -> 4
      [] ev \in {"getBlob", "accepted", "skipped", "rejected", "capped"} -> 5
      [] ev = "chat.completions.create" -> 6
      [] ev \in {"comment.terminal", "comment.system_error"} -> 7
      [] OTHER -> 8

\* C20: the calls of a cycle come in the order Started write, validation,
\* repository tree listing, blob fetches, completion request, terminal
\* write; each of these but the blob fetch is made at most once; the
\* completion request is made only with a non-empty selection; and a cycle
\* whose validation fails calls neither the repository reader nor the
\* completion service.
C20_CallsInPipelineOrder ==
    /\ \A j, k \in 1..Len(log) : j < k => CallRank(log[j].ev) <= CallRank(log[k].ev)
    /\ \A name \in {"comment.started", "validateIssueFormat", "repos.get", "git.getTree",
                    "chat.completions.create", "comment.terminal"} :
          Cardinality(LogPositions({name})) <= 1
    /\ LogPositions({"chat.completions.create"}) # {} =>
          /\ plan.pc = "done"
          /\ Len(plan.selected) > 0
    /\ LogPositions({"comment.terminal"}) # {} =>
          /\ log[1].ev = "comment.started"
          /\ log[2].ev = "validateIssueFormat"
    /\ cycle.payload.fmt # "valid" =>
          LogPositions({"repos.get", "git.getTree", "getBlob",
                        "chat.completions.create"}) = {}

\* C20 witness: a cycle has returned with a review after two blob fetches
\* and one completion request.
C20_Witness ==
    /\ cycle.pc = "returned"
    /\ cycle.type = "review_success"
    /\ Cardinality(LogPositions({"getBlob"})) = 2
    /\ Cardinality(LogPositions({"chat.completions.create"})) = 1
    /\ log[Len(log)].ev \in {"comment.terminal", "issues.update"}

\* C21: a completion request that raises or returns an empty body makes the
\* cycle a Failure with the diagnostic message of that case and no review
\* text; and a cycle has a successful result only after a completion that
\* returned a text, its review being that text followed by the summary.
C21_NoReviewWithoutCompletionText ==
    /\ cycle.completion \in {"raises", "empty"} =>
          /\ cycle.pc \in AfterPipeline
          /\ cycle.type = "review_failure"
          /\ ~cycle.result.success
          /\ cycle.result.review = <<>>
          /\ cycle.result.error = IF cycle.completion = "raises" THEN "AI_CALL_FAILED"
                                  ELSE "AI_EMPTY_RESPONSE"
          /\ \A i \in 1..Len(comments) : comments[i].kind # "review_success"
    /\ (cycle.result.success \/ cycle.type = "review_success") =>
          /\ cycle.completion = "text"
          /\ cycle.result.success
          /\ cycle.type = "review_success"
          /\ Head(cycle.result.review) = "REVIEW"

\* C21 witness: a cycle has returned after an empty completion, its status
\* comment showing Failure.
C21_Witness ==
    /\ cycle.pc = "returned"
    /\ cycle.completion = "empty"
    /\ cycle.posted = [type |-> "review_failure", text |-> "AI_EMPTY_RESPONSE", ok |-> TRUE]
    /\ comments # <<>>
    /\ comments[Len(comments)].kind = "review_failure"

\* The claim's submission record: name and description are there and are
\* not the placeholders, and the repository URL is on github.com with an
\* owner and a repository name in its path.
WellFormedSubmission(issue) ==
    /\ issue.json = "object"
    /\ issue.data.name \notin {"", "PLACEHOLDER"}
    /\ issue.data.desc \notin {"", "PLACEHOLDER"}
    /\ issue.data.repo.kind = "url"
    /\ issue.data.repo.host = "github.com"
    /\ Len(issue.data.repo.path) >= 2

\* C22: a cycle goes past validation only with a well-formed submission
\* record, and a cycle whose issue has none ends in FormatError. Stated as
\* the claim: it fails on the code.
C22_AcceptedSubmissionIsWellFormed ==
    /\ (cycle.pc \notin {"idle", "started", "validate"} /\ cycle.payload.fmt = "valid") =>
          WellFormedSubmission(cycle.issue)
    /\ (cycle.pc = "returned" /\ ~WellFormedSubmission(cycle.issue)) =>
          cycle.type = "format_error"

\* A line after comment stripping, as C11 states it.
StrippedLine(l) ==
    LET starts == CommentStarts(l) IN
    IF starts = {} THEN l
    ELSE WithoutTrailingBlanks(SubSeq(l, 1, (CHOOSE n \in starts : \A m \in starts : n <= m) - 1))

\* The lines of a text: the runs of characters between its line feeds.
LinesOf(text) ==
    LET ends == {n \in 1..(Len(text) + 1) : n = Len(text) + 1 \/ text[n] = "\n"}
        before(e) == {f \in ends : f < e}
        nth(k) == CHOOSE e \in ends : Cardinality(before(e)) = k - 1
        start(e) == IF before(e) = {} THEN 1
                    ELSE (CHOOSE f \in before(e) : \A g \in before(e) : g <= f) + 1
    IN  [k \in 1..Cardinality(ends) |-> SubSeq(text, start(nth(k)), nth(k) - 1)]

HasVisibleCharacter(l) == \E n \in 1..Len(l) : l[n] # " "

\* C23: the normalized content is the lines of the blob, each after comment
\* stripping, without those that are empty or all blanks and in their
\* original order; so the content has no empty or blank line.
C23_NormalizedContentHasNoBlankLine ==
    norm.pc = "done" =>
        LET stripped == [k \in 1..Len(LinesOf(blobText)) |-> StrippedLine(LinesOf(blobText)[k])]
            expected == SelectSeq(stripped, HasVisibleCharacter)
        IN
        /\ norm.kept = expected
        /\ norm.content # <<>> =>
              /\ LinesOf(norm.content) = expected
              /\ \A k \in 1..Len(LinesOf(norm.content)) :
                    HasVisibleCharacter(LinesOf(norm.content)[k])
        /\ norm.content = <<>> => expected = <<>>

\* C23 witness: of three lines the middle one was made of blanks and is
\* gone, the two others follow each other in the content.
C23_Witness ==
    /\ norm.pc = "done"
    /\ Len(LinesOf(blobText)) = 3
    /\ LinesOf(blobText)[2] # <<>>
    /\ ~HasVisibleCharacter(LinesOf(blobText)[2])
    /\ LinesOf(norm.content) = <<LinesOf(blobText)[1], LinesOf(blobText)[3]>>

\* C24: the body a cycle of an edit stores after its un-check write has no
\* checked box, and an event of a body write of the engine never passes the
\* qualification: a handler whose event body is none of the bodies the
\* submitter writes (so an engine write stored it) stays at its start.
C24_OwnBodyWritesDoNotRearm ==
    /\ bodyWriter = "options_edited" => ~HasCheckedBox(body.toks)
    /\ \A p \in BagToSet(procs) :
          p.payload.toks \notin UserToks => p.pc = "start"

\* The status comment of the cycle shows Started: the Started write went
\* through and no later write of the cycle changed the comment.
ShowsStarted ==
    /\ cycle.currentCommentId # NoId
    /\ comments[cycle.currentCommentId].kind = "review_started"

\* C25 (termination): with every call returning, a cycle whose status
\* comment shows Started comes to its end.
C25_StartedCycleTerminates == ShowsStarted ~> cycle.pc = "returned"

\* C25: a cycle that has ended has not left Started as the last status it
\* wrote, unless the ticket has a system-error comment.
C25_NoCycleEndsInStarted ==
    (cycle.pc = "returned" /\ ShowsStarted) => \E i \in 1..Len(comments) : comments[i].sys

\* C26: the step in which the un-check write of a qualified edit raises ends
\* that handler (it goes on neither to the Started write nor to the catch)
\* and leaves the comments and the body as they were.
C26_FailedUncheckStartsNoCycle ==
    [][log' # log =>
          /\ \E p \in BagToSet(procs) :
                /\ p.pc = "uncheck" /\ p.isUpdate /\ HasCheckedBox(p.payload.toks)
                /\ procs' = Take(procs, p)
          /\ comments' = comments
          /\ body' = body]_vars

\* C26 witness: the un-check write of an edit raised and every handler has
\* ended; the one comment shows the FormatError or Failure the edit found and
\* the body still has the box the submitter checked.
C26_Witness ==
    /\ log # <<>>
    /\ procs = EmptyBag
    /\ bodyWriter = "user" /\ HasCheckedBox(body.toks)
    /\ Len(comments) = 1
    /\ comments[1].kind \in {"format_error", "review_failure"}
====
